---- MODULE Spec2Model ----
(***************************************************************************)
(* Job registry (TaskService) and page audio generation of BananaLecture.  *)
(*                                                                         *)
(* Spec      : one TaskService instance over the task files, called with   *)
(*             every argument the task API lets a caller pass.             *)
(* PageSpec  : one page audio-generation job (page_generate_audio_task     *)
(*             driving AudioService.generate_audio_for_page) interleaved   *)
(*             with the task API at the job's await points.  The job's     *)
(*             background task keeps one TaskService for its whole life;   *)
(*             every step of the page loop and every API request builds    *)
(*             its own, which loads the task files when it is built.       *)
(* CrashSpec, ClientSpec, ScriptSpec, RegenSpec, RetrySpec, RegistrySpec,  *)
(* EditSpec, AssembleSpec, ConvertSpec, BatchSpec, JobSpec and JobLiveSpec *)
(* are introduced at their sections below.                                 *)
(***************************************************************************)
EXTENDS Integers, Sequences, FiniteSets, TLC

\* ------------------------------------------------------------------ bounds
MaxTotal == 2      \* largest total_steps a caller passes to create_task
MaxStep  == 3      \* cap on current_step (guards increment)
NumUnits == 3      \* dialogues of a page
MaxGen   == 2      \* cap on the times one dialogue's audio file is written
NumPages == 3      \* pages (images) of a project
MaxDialogues == 2  \* most dialogues in the script of a page of a batch
MaxCounted == 1    \* cap on current_step where two tasks are followed

\* JobId is the id generate_unique_id gives the task of a run; NoId stands for
\* every id that was never allocated
JobId   == "t1"
NoId    == "t0"
TaskIds == {JobId}
Ids     == {NoId, JobId}
Units   == 1..NumUnits
Pages   == 1..NumPages

\* ------------------------------------------------------------ enumerations
PENDING   == "pending"
RUNNING   == "running"
COMPLETED == "completed"
FAILED    == "failed"
TaskStatus == {PENDING, RUNNING, COMPLETED, FAILED}
TaskType   == {"script_generation", "audio_generation"}
Terminal   == {COMPLETED, FAILED}

None      == "None"          \* Python None as an error_message
NoTask    == [id |-> ""]     \* no entry in a map / no file
NoArg     == <<>>            \* an optional numeric argument left at None
Cancelled == "cancelled"     \* the message cancel_task stores
EmptyText == ""              \* the message of an exception raised without one
ErrText   == "err"           \* any other message

\* ------------------------------------------------- progress as a fraction
\* progress is a float; current_step / total_steps is kept exact as <<n, d>>
RECURSIVE GCD(_, _)
GCD(a, b) == IF b = 0 THEN a ELSE GCD(b, a % b)
Abs(n)    == IF n < 0 THEN -n ELSE n
Frac(n, d) == LET g == GCD(Abs(n), d) IN <<n \div g, d \div g>>
Zero == <<0, 1>>
One  == <<1, 1>>
Leq(p, q) == p[1] * q[2] <= q[1] * p[2]
FMin(p, q) == IF Leq(p, q) THEN p ELSE q
FMax(p, q) == IF Leq(p, q) THEN q ELSE p

\* arguments callers pass
ProgressInputs == {NoArg, <<-1, 2>>, <<1, 2>>, <<3, 2>>}
StepInputs     == {NoArg, <<-1>>, <<MaxStep>>}
ErrorInputs    == {None, ErrText}
TotalInputs    == {-1, 0, MaxTotal}

VARIABLES
    files,        \* tasks directory: task id -> persisted record, or NoTask
    tasks,        \* the _tasks map of the long-lived TaskService instance
    used,         \* ids generate_unique_id has returned
    ret,          \* the last call: operation, id, outcome, arguments, record before
    incSeen,      \* progress seen after the last increment of an id, NoArg once mutated otherwise
    pc,           \* position of the job's background task; in CrashSpec "idle" while
                  \* the server process is up and "crashed" once it has died
    k,            \* index of the dialogue the page loop is at
    attempt,      \* attempt number of _request_audio for that dialogue
    audio_files,  \* generate_audio_for_page's list (0 is the lead-in file)
    unitAudio,    \* dialogue audio files: unit -> generation written, 0 if absent
    pageAudio,    \* page audio file: the chunks merged into it, <<>> if absent
    leadIn,       \* page_number = 1 and the lead-in asset exists
    returned,     \* units for which _request_audio returned audio bytes
    written,      \* units whose audio file this job has written
    incTrue,      \* increment calls on the job that returned True
    cancelHit,    \* unit in flight when a cancel of the running job succeeded, else 0
    impl,         \* the class whose _request_audio runs: "AudioClient" or "AudioService"
    cfg,          \* its max_retries, base_delay, max_delay, exponential_base
    posts,        \* client.post calls issued by the running _request_audio
    resps,        \* the outcome of each of them, in order
    waits,        \* the retry sleeps it has begun: <<delay, jitter>> in milliseconds
    result,       \* what _request_audio returned, "running" until it has
    dialogues,    \* script.dialogues of the page's script file: dialogue ids in order
    beginFile,    \* the page's audio directory holds the copy of the lead-in
    scripts,      \* batch: page -> <<number of dialogues of its script>>, NoArg if no script file
    attempted,    \* batch: pages generate_audio_for_page was called for
    pageFiles     \* batch: page -> the audio_files list merged into its page audio, <<>> if none

regVars  == <<files, tasks, used, ret, incSeen>>
pageVars == <<pc, k, attempt, audio_files, unitAudio, pageAudio, leadIn,
              returned, written, incTrue, cancelHit>>
clientVars == <<impl, cfg, posts, resps, waits, result>>
scriptVars == <<dialogues, beginFile>>
batchVars == <<scripts, attempted, pageFiles>>
vars == <<regVars, pageVars, clientVars, scriptVars, batchVars>>

\* ------------------------------------------------------------------- Task
\* a task built without the caller's total_steps
Task_NoTotal(id, type, total) ==
    [id |-> id, type |-> type, status |-> PENDING, progress |-> Zero,
     current_step |-> 0, total_steps |-> 0, error_message |-> None]

Task(id, type, total) ==
    [id |-> id, type |-> type, status |-> PENDING, progress |-> Zero,
     current_step |-> 0, total_steps |-> total, error_message |-> None]

Call(op, id, out, args, pre, seen) ==
    [op |-> op, id |-> id, out |-> out, args |-> args, pre |-> pre, seen |-> seen]

NoTasks == [id \in TaskIds |-> NoTask]

Range(f) == {f[i] : i \in DOMAIN f}

\* self._tasks.get(task_id)
Lookup(m, id) == IF id \in DOMAIN m THEN m[id] ELSE NoTask

\* open(task_file, 'w') truncates the file and the JSON text reaches it when the
\* buffer is flushed: a process that dies in between leaves the file empty or
\* holding a prefix of the text
TornOutcomes == {"empty", "partial"}
Torn(id, part) == [id |-> id, torn |-> part]

\* json.load: raises on an empty file and on a prefix of a JSON object
Parses(t) == "status" \in DOMAIN t

\* Task.model_validate: the field constraints of the Task model
ValidTask(t) ==
    /\ t # NoTask
    /\ Parses(t)
    /\ Leq(Zero, t.progress) /\ Leq(t.progress, One)
    /\ t.current_step >= 0
    /\ t.total_steps >= 0

\* _load_tasks: a new instance reads the task files into its map; a file that
\* fails validation raises, which ends the loading, so that task is not held
LoadTasks(fs) == [id \in DOMAIN fs |-> IF ValidTask(fs[id]) THEN fs[id] ELSE NoTask]

\* a save that writes the record to every task file
SaveTask_EveryFile(fs, task) == [id \in DOMAIN fs |-> task]

\* _save_task: the whole record replaces the task's file
SaveTask(fs, task) == [fs EXCEPT ![task.id] = task]

\* progress stored as passed
ClampProgress_Unclamped(p) == p

\* max(0.0, min(1.0, progress))
ClampProgress(p) == FMax(Zero, FMin(One, p))

\* max(0, current_step)
ClampStep(n) == IF n < 0 THEN 0 ELSE n

\* the ratio without the cap at 1.0
StepProgress_Uncapped(cs, total) == Frac(cs, total)

\* min(1.0, task.current_step / task.total_steps)
StepProgress(cs, total) == FMin(One, Frac(cs, total))

\* ------------------------------------------------ TaskService operations
\* Each takes the instance's map m and the task files fs and yields the map,
\* the files and the value returned.
Result(m, fs, out) == [tasks |-> m, files |-> fs, out |-> out]

\* an update that leaves the stored error_message alone when none is given
UpdatedTask_KeepsError(task, status, progress, current_step, error_message) ==
    [task EXCEPT
        !.status = status,
        !.progress = IF progress # NoArg THEN ClampProgress(progress) ELSE @,
        !.current_step = IF current_step # NoArg THEN ClampStep(current_step[1]) ELSE @,
        !.error_message = IF error_message # None THEN error_message ELSE @]

\* the record update_task_status leaves in memory
UpdatedTask(task, status, progress, current_step, error_message) ==
    [task EXCEPT
        !.status = status,
        !.progress = IF progress # NoArg THEN ClampProgress(progress) ELSE @,
        !.current_step = IF current_step # NoArg THEN ClampStep(current_step[1]) ELSE @,
        !.error_message = IF error_message # None THEN error_message
                          ELSE IF status = RUNNING THEN None ELSE @]

\* an update that changes the record in memory and does not call _save_task
update_task_status_NotSaved(m, fs, id, status, progress, current_step, error_message) ==
    LET task == Lookup(m, id) IN
    IF task = NoTask THEN Result(m, fs, "False")
    ELSE LET new == UpdatedTask(task, status, progress, current_step, error_message) IN
         Result([m EXCEPT ![id] = new], fs, "True")

update_task_status(m, fs, id, status, progress, current_step, error_message) ==
    LET task == Lookup(m, id) IN
    IF task = NoTask THEN Result(m, fs, "False")
    ELSE LET new == UpdatedTask(task, status, progress, current_step, error_message) IN
         Result([m EXCEPT ![id] = new], SaveTask(fs, new), "True")

\* an increment that counts two steps
IncrementedTask_TwoSteps(task) ==
    LET cs == task.current_step + 2 IN
    [task EXCEPT
        !.current_step = cs,
        !.progress = IF task.total_steps > 0 THEN StepProgress(cs, task.total_steps) ELSE @]

\* the record increment_task_progress leaves in memory
IncrementedTask(task) ==
    LET cs == task.current_step + 1 IN
    [task EXCEPT
        !.current_step = cs,
        !.progress = IF task.total_steps > 0 THEN StepProgress(cs, task.total_steps) ELSE @]

\* the map entry used without the `if not task` guard
increment_task_progress_Unguarded(m, fs, id) ==
    LET task == Lookup(m, id) IN
    IF task = NoTask THEN Result(m, fs, "raise")
    ELSE LET new == IncrementedTask(task) IN
         Result([m EXCEPT ![id] = new], SaveTask(fs, new), "True")

increment_task_progress(m, fs, id) ==
    LET task == Lookup(m, id) IN
    IF task = NoTask THEN Result(m, fs, "False")
    ELSE LET new == IncrementedTask(task) IN
         Result([m EXCEPT ![id] = new], SaveTask(fs, new), "True")

\* cancel allowed from every status but COMPLETED
Cancellable_Failed(status) == status # COMPLETED

\* task.status in [PENDING, RUNNING]
Cancellable(status) == status \in {PENDING, RUNNING}

cancel_task(m, fs, id) ==
    LET task == Lookup(m, id) IN
    IF task = NoTask THEN Result(m, fs, "False")
    ELSE IF Cancellable(task.status)
    THEN LET new == [task EXCEPT !.status = FAILED, !.error_message = Cancelled] IN
         Result([m EXCEPT ![id] = new], SaveTask(fs, new), "True")
    ELSE Result(m, fs, "False")

get_task(m, id) == IF Lookup(m, id) = NoTask THEN "None" ELSE "Task"

\* ------------------------------------------------------------------ Spec
\* AudioService._request_audio: max_retries = 3, base_delay = 5
ServiceCfg == [max_retries |-> 3, base_delay |-> 5]

\* no _request_audio is running
ClientIdle ==
    /\ impl = "AudioService"
    /\ cfg = ServiceCfg
    /\ posts = 0
    /\ resps = <<>>
    /\ waits = <<>>
    /\ result = "running"

\* the script of the page as generate_script_for_page saved it; no lead-in copy
ScriptIdle ==
    /\ dialogues = [i \in 1..NumUnits |-> i]
    /\ beginFile = FALSE

\* no batch job: no scripts looked at, no page audio written by one
BatchIdle ==
    /\ scripts = [p \in Pages |-> NoArg]
    /\ attempted = {}
    /\ pageFiles = [p \in Pages |-> <<>>]

PageIdle ==
    /\ pc = "idle"
    /\ k = 0
    /\ attempt = 0
    /\ audio_files = <<>>
    /\ unitAudio = [u \in Units |-> 0]
    /\ pageAudio = <<>>
    /\ leadIn = FALSE
    /\ returned = {}
    /\ written = {}
    /\ incTrue = 0
    /\ cancelHit = 0

Init ==
    /\ files = NoTasks
    /\ tasks = LoadTasks(files)
    /\ used = {}
    /\ ret = Call("init", NoId, None, <<>>, NoTask, NoArg)
    /\ incSeen = [id \in Ids |-> NoArg]
    /\ PageIdle
    /\ ClientIdle
    /\ ScriptIdle
    /\ BatchIdle

\* TaskService(): __init__ runs _load_tasks
NewTaskService ==
    /\ tasks' = LoadTasks(files)
    /\ ret' = Call("init", NoId, None, <<>>, NoTask, NoArg)
    /\ UNCHANGED <<files, used, incSeen, pageVars, clientVars, scriptVars, batchVars>>

CreateTask(type, total) ==
    IF total < 0
    THEN \* Task(...) fails validation: total_steps has ge=0
         /\ ret' = Call("create", NoId, "raise", <<>>, NoTask, NoArg)
         /\ UNCHANGED <<files, tasks, used, incSeen, pageVars, clientVars, scriptVars, batchVars>>
    ELSE \E id \in TaskIds \ used :
         LET task == Task(id, type, total) IN
         /\ used' = used \cup {id}
         /\ tasks' = [tasks EXCEPT ![id] = task]
         /\ files' = SaveTask(files, task)
         /\ ret' = Call("create", id, "Task", <<type, total>>, NoTask, NoArg)
         /\ incSeen' = [incSeen EXCEPT ![id] = NoArg]
         /\ UNCHANGED <<pageVars, clientVars, scriptVars, batchVars>>

GetTask(id) ==
    /\ ret' = Call("get", id, get_task(tasks, id), <<>>, Lookup(tasks, id), NoArg)
    /\ UNCHANGED <<files, tasks, used, incSeen, pageVars, clientVars, scriptVars, batchVars>>

UpdateTaskStatus(id, status, progress, current_step, error_message) ==
    LET r == update_task_status(tasks, files, id, status, progress, current_step, error_message) IN
    /\ tasks' = r.tasks
    /\ files' = r.files
    /\ ret' = Call("update", id, r.out,
                   IF r.out = "True" THEN <<status, progress, current_step, error_message>>
                   ELSE <<>>, NoTask, NoArg)
    /\ incSeen' = IF r.out = "True" THEN [incSeen EXCEPT ![id] = NoArg] ELSE incSeen
    /\ UNCHANGED <<used, pageVars, clientVars, scriptVars, batchVars>>

IncrementTaskProgress(id) ==
    LET r == increment_task_progress(tasks, files, id) IN
    /\ Lookup(tasks, id) # NoTask => Lookup(tasks, id).current_step < MaxStep
    /\ tasks' = r.tasks
    /\ files' = r.files
    /\ ret' = Call("increment", id, r.out, <<>>, Lookup(tasks, id), incSeen[id])
    /\ incSeen' = IF r.out = "True" THEN [incSeen EXCEPT ![id] = r.tasks[id].progress]
                  ELSE incSeen
    /\ UNCHANGED <<used, pageVars, clientVars, scriptVars, batchVars>>

CancelTask(id) ==
    LET r == cancel_task(tasks, files, id) IN
    /\ tasks' = r.tasks
    /\ files' = r.files
    /\ ret' = Call("cancel", id, r.out, <<>>, Lookup(tasks, id), NoArg)
    /\ incSeen' = IF r.out = "True" THEN [incSeen EXCEPT ![id] = NoArg] ELSE incSeen
    /\ UNCHANGED <<used, pageVars, clientVars, scriptVars, batchVars>>

Next ==
    \/ NewTaskService
    \/ \E type \in TaskType, total \in TotalInputs : CreateTask(type, total)
    \/ \E id \in Ids : GetTask(id)
    \/ \E id \in Ids, status \in TaskStatus, progress \in ProgressInputs,
          current_step \in StepInputs, error_message \in ErrorInputs :
          UpdateTaskStatus(id, status, progress, current_step, error_message)
    \/ \E id \in Ids : IncrementTaskProgress(id)
    \/ \E id \in Ids : CancelTask(id)

Spec == Init /\ [][Next]_vars

\* -------------------------------------------------------------- PageSpec
\* _request_audio: max_retries = 3
max_retries == 3

\* script.dialogues of the page, in script order
Dialogues == [i \in 1..NumUnits |-> i]

\* the lead-in file in audio_files
BeginFile == 0

\* a merge that puts every dialogue of the page in the output, listed or not
MergeAudioFiles_WithGaps(af, ua) ==
    (IF af # <<>> /\ af[1] = BeginFile THEN <<<<BeginFile, 1>>>> ELSE <<>>)
        \o [i \in 1..NumUnits |-> <<i, ua[i]>>]

\* merge_audio_files: the files of the list, read when merging, concatenated in list order
MergeAudioFiles(af, ua) ==
    [i \in 1..Len(af) |-> IF af[i] = BeginFile THEN <<BeginFile, 1>> ELSE <<af[i], ua[af[i]]>>]

\* AudioSegment.from_mp3 raises when a listed file is gone
Readable(af, ua) == \A i \in 1..Len(af) : af[i] = BeginFile \/ ua[af[i]] > 0

\* POST /api/audio/page/generate has created the task and queued the background task
PageInit ==
    /\ files = [id \in TaskIds |-> Task(id, "audio_generation", NumUnits)]
    /\ tasks = NoTasks
    /\ used = {JobId}
    /\ ret = Call("create", JobId, "Task", <<>>, NoTask, NoArg)
    /\ incSeen = [id \in Ids |-> NoArg]
    /\ pc = "queued"
    /\ k = 0
    /\ attempt = 0
    /\ audio_files = <<>>
    /\ unitAudio \in [Units -> {0, 1}]
    /\ pageAudio = <<>>
    /\ leadIn \in BOOLEAN
    /\ returned = {}
    /\ written = {}
    /\ incTrue = 0
    /\ cancelHit = 0
    /\ ClientIdle
    /\ ScriptIdle
    /\ BatchIdle

\* page_generate_audio_task up to its first await: the task's own TaskService is
\* built, the project and script are checked, the task is set RUNNING and
\* generate_audio_for_page posts the first dialogue's request
BgStart(check) ==
    /\ pc = "queued"
    /\ LET m == LoadTasks(files)
           r == IF check = "ok"
                THEN update_task_status(m, files, JobId, RUNNING, NoArg, NoArg, None)
                ELSE update_task_status(m, files, JobId, FAILED, NoArg, NoArg, ErrText)
       IN /\ tasks' = r.tasks
          /\ files' = r.files
          /\ ret' = Call("bg_start", JobId, r.out, <<>>, NoTask, NoArg)
    /\ IF check = "ok"
       THEN /\ pc' = "post"
            /\ k' = 1
            /\ attempt' = 1
            /\ audio_files' = IF leadIn THEN <<BeginFile>> ELSE <<>>
       ELSE /\ pc' = "done"
            /\ UNCHANGED <<k, attempt, audio_files>>
    /\ UNCHANGED <<used, incSeen, unitAudio, pageAudio, leadIn, returned, written,
                   incTrue, cancelHit, clientVars, scriptVars, batchVars>>

\* the rest of generate_audio_for_page and of the background task once the
\* dialogue at k is dealt with, given the list af, the dialogue files ua and the
\* task files fs it leaves: the next request, or the merge and the final status
AfterUnit(af, ua, fs) ==
    IF k < Len(Dialogues)
    THEN /\ k' = k + 1
         /\ attempt' = 1
         /\ pc' = "post"
         /\ files' = fs
         /\ UNCHANGED <<tasks, pageAudio>>
    ELSE /\ pc' = "done"
         /\ UNCHANGED <<k, attempt>>
         /\ LET merged == af # <<>> /\ Readable(af, ua)
                r == IF merged
                     THEN update_task_status(tasks, fs, JobId, COMPLETED, One, NoArg, None)
                     ELSE update_task_status(tasks, fs, JobId, FAILED, NoArg, NoArg, ErrText)
            IN /\ pageAudio' = IF merged THEN MergeAudioFiles(af, ua) ELSE pageAudio
               /\ tasks' = r.tasks
               /\ files' = r.files

\* a retry loop that starts over at attempt 1 when the last attempt has failed
Response_RestartsRetries(resp) ==
    /\ pc = "post"
    /\ ret' = Call("response", JobId, resp, <<>>, NoTask, NoArg)
    /\ IF resp = "valid"
       THEN /\ pc' = "sleep"
            /\ returned' = returned \cup {Dialogues[k]}
            /\ UNCHANGED <<files, tasks, k, attempt, audio_files, pageAudio>>
       ELSE /\ attempt' = IF attempt < max_retries THEN attempt + 1 ELSE 1
            /\ UNCHANGED <<files, tasks, pc, k, audio_files, pageAudio, returned>>
    /\ UNCHANGED <<used, incSeen, unitAudio, leadIn, written, incTrue, cancelHit, clientVars, scriptVars, batchVars>>

\* the response to client.post for the dialogue at k
Response(resp) ==
    /\ pc = "post"
    /\ ret' = Call("response", JobId, resp, <<>>, NoTask, NoArg)
    /\ IF resp = "valid"
       THEN \* audio decoded; asyncio.sleep(5) before _request_audio returns
            /\ pc' = "sleep"
            /\ returned' = returned \cup {Dialogues[k]}
            /\ UNCHANGED <<files, tasks, k, attempt, audio_files, pageAudio>>
       ELSE IF attempt < max_retries
       THEN \* asyncio.sleep(base_delay), then the next attempt
            /\ attempt' = attempt + 1
            /\ UNCHANGED <<files, tasks, pc, k, audio_files, pageAudio, returned>>
       ELSE \* _request_audio returns None: the dialogue is logged and skipped
            /\ AfterUnit(audio_files, unitAudio, files)
            /\ UNCHANGED <<audio_files, returned>>
    /\ UNCHANGED <<used, incSeen, unitAudio, leadIn, written, incTrue, cancelHit, clientVars, scriptVars, batchVars>>

\* a page loop that drops the audio of a task found cancelled
UnitDone_StopsWhenCancelled ==
    /\ pc = "sleep"
    /\ IF files[JobId].status = FAILED
       THEN /\ ret' = Call("unit_done", JobId, "False", <<>>, NoTask, NoArg)
            /\ AfterUnit(audio_files, unitAudio, files)
            /\ UNCHANGED <<audio_files, unitAudio, written, incTrue>>
       ELSE LET u  == Dialogues[k]
                ua == [unitAudio EXCEPT ![u] = @ + 1]
                af == Append(audio_files, u)
                r  == increment_task_progress(LoadTasks(files), files, JobId)
            IN /\ unitAudio' = ua
               /\ audio_files' = af
               /\ written' = written \cup {u}
               /\ incTrue' = IF r.out = "True" THEN incTrue + 1 ELSE incTrue
               /\ ret' = Call("unit_done", JobId, r.out, <<>>, NoTask, NoArg)
               /\ AfterUnit(af, ua, r.files)
    /\ UNCHANGED <<used, incSeen, leadIn, returned, cancelHit, clientVars, scriptVars, batchVars>>

\* _request_audio returned bytes: the dialogue file is written, the path is
\* appended and a new TaskService increments the task
UnitDone ==
    /\ pc = "sleep"
    /\ LET u  == Dialogues[k]
           ua == [unitAudio EXCEPT ![u] = @ + 1]
           af == Append(audio_files, u)
           r  == increment_task_progress(LoadTasks(files), files, JobId)
       IN /\ unitAudio' = ua
          /\ audio_files' = af
          /\ written' = written \cup {u}
          /\ incTrue' = IF r.out = "True" THEN incTrue + 1 ELSE incTrue
          /\ ret' = Call("unit_done", JobId, r.out, <<>>, NoTask, NoArg)
          /\ AfterUnit(af, ua, r.files)
    /\ UNCHANGED <<used, incSeen, leadIn, returned, cancelHit, clientVars, scriptVars, batchVars>>

\* DELETE /api/tasks/{task_id}: the request's own TaskService cancels the task
ApiCancel ==
    /\ LET r == cancel_task(LoadTasks(files), files, JobId) IN
       /\ files' = r.files
       /\ ret' = Call("cancel", JobId, r.out, <<>>, Lookup(files, JobId), NoArg)
       /\ cancelHit' = IF r.out = "True" /\ files[JobId].status = RUNNING /\ pc \in {"post", "sleep"}
                       THEN Dialogues[k] ELSE cancelHit
    /\ UNCHANGED <<tasks, used, incSeen, pc, k, attempt, audio_files, unitAudio,
                   pageAudio, leadIn, returned, written, incTrue, clientVars, scriptVars, batchVars>>

PageNext ==
    \/ \E check \in {"ok", "no_project", "no_script"} : BgStart(check)
    \/ \E resp \in {"valid", "failed"} : Response(resp)
    \/ UnitDone
    \/ ApiCancel

PageSpec == PageInit /\ [][PageNext]_vars

\* ------------------------------------------------------------- CrashSpec
\* One server process with its TaskService; the process can die between two
\* calls or inside _save_task, and a new process loads the task files.
CrashInit == Init

\* the end of a call whose result is r: the call returns, or, when it writes the
\* file of id, the process dies inside the write and leaves the file torn
SaveOrDie(op, id, r, outcome) ==
    IF outcome = "written" \/ r.out \notin {"True", "Task"}
    THEN /\ tasks' = r.tasks
         /\ files' = r.files
         /\ ret' = Call(op, id, r.out, <<>>, NoTask, NoArg)
         /\ pc' = pc
    ELSE /\ tasks' = NoTasks
         /\ files' = [files EXCEPT ![id] = Torn(id, outcome)]
         /\ ret' = Call(op, id, outcome, <<>>, NoTask, NoArg)
         /\ pc' = "crashed"

CrashUnchanged ==
    UNCHANGED <<incSeen, k, attempt, audio_files, unitAudio, pageAudio, leadIn,
                returned, written, incTrue, cancelHit, clientVars, scriptVars, batchVars>>

CrashCreate(type, total, outcome) ==
    /\ pc = "idle"
    /\ \E id \in TaskIds \ used :
          LET task == Task(id, type, total) IN
          /\ used' = used \cup {id}
          /\ SaveOrDie("create", id,
                       Result([tasks EXCEPT ![id] = task], SaveTask(files, task), "Task"),
                       outcome)
    /\ CrashUnchanged

CrashUpdate(id, status, progress, error_message, outcome) ==
    /\ pc = "idle"
    /\ SaveOrDie("update", id,
                 update_task_status(tasks, files, id, status, progress, NoArg, error_message),
                 outcome)
    /\ UNCHANGED used
    /\ CrashUnchanged

CrashIncrement(id, outcome) ==
    /\ pc = "idle"
    /\ Lookup(tasks, id) # NoTask => Lookup(tasks, id).current_step < MaxStep
    /\ SaveOrDie("increment", id, increment_task_progress(tasks, files, id), outcome)
    /\ UNCHANGED used
    /\ CrashUnchanged

CrashCancel(id, outcome) ==
    /\ pc = "idle"
    /\ SaveOrDie("cancel", id, cancel_task(tasks, files, id), outcome)
    /\ UNCHANGED used
    /\ CrashUnchanged

\* the process dies while no call is running
Crash ==
    /\ pc = "idle"
    /\ pc' = "crashed"
    /\ tasks' = NoTasks
    /\ ret' = Call("crash", NoId, None, <<>>, NoTask, NoArg)
    /\ UNCHANGED <<files, used>>
    /\ CrashUnchanged

\* a new process: TaskService() loads the task files
Restart ==
    /\ pc = "crashed"
    /\ pc' = "idle"
    /\ tasks' = LoadTasks(files)
    /\ ret' = Call("init", NoId, None, <<>>, NoTask, NoArg)
    /\ UNCHANGED <<files, used>>
    /\ CrashUnchanged

WriteOutcomes == {"written"} \cup TornOutcomes

CrashNext ==
    \/ \E type \in TaskType, total \in {0, MaxTotal}, o \in WriteOutcomes :
          CrashCreate(type, total, o)
    \/ \E id \in TaskIds, status \in TaskStatus, progress \in ProgressInputs,
          error_message \in ErrorInputs, o \in WriteOutcomes :
          CrashUpdate(id, status, progress, error_message, o)
    \/ \E id \in TaskIds, o \in WriteOutcomes : CrashIncrement(id, o)
    \/ \E id \in TaskIds, o \in WriteOutcomes : CrashCancel(id, o)
    \/ Crash
    \/ Restart

CrashSpec == CrashInit /\ [][CrashNext]_vars

\* ------------------------------------------------------------ ClientSpec
\* One call of _request_audio at a time, of AudioClient (core/audio_client.py) or
\* of AudioService (services/audio_service.py, the one generate_audio_for_dialogue
\* calls), against a server that answers each post in any of the ways below.

\* AudioClient(): the default arguments, and a client built with max_delay = 8
DefaultCfg == [max_retries |-> 3, base_delay |-> 5, max_delay |-> 60, exponential_base |-> 2]
ClientCfgs == {DefaultCfg, [DefaultCfg EXCEPT !.max_delay = 8]}

\* what a post ends in: a 200 whose body passes _is_api_response_valid and holds
\* hex audio ("ok"), a 200 whose body fails _is_api_response_valid ("invalid"), a
\* 200 whose body is not JSON or whose audio is not hex ("undecodable"),
\* httpx.TimeoutException, a 500, 429 or 400 status, any other exception
RespKinds == {"ok", "invalid", "undecodable", "timeout", "s500", "s429", "s400", "unknown"}

\* statuses raise_for_status turns into httpx.HTTPStatusError
ErrorStatus == {"s500", "s429", "s400"}

\* AudioClient: elif 400 <= response.status_code < 500 (429 is tested before it)
\* returns None at once; AudioService has no such branch
Permanent(i, resp) == i = "AudioClient" /\ resp = "s400"

\* the exceptions _request_audio catches: AudioClient ends in `except Exception`,
\* AudioService catches httpx.HTTPError, binascii.Error, ValueError and KeyError
Caught(i, resp) == i = "AudioClient" \/ resp # "unknown"

\* a variant that gives up on a timeout
Retried_NotOnTimeout(i, resp) ==
    resp \notin {"ok", "timeout"} /\ ~Permanent(i, resp) /\ Caught(i, resp)

\* a failed attempt that is followed by another one while attempts are left
Retried(i, resp) == resp # "ok" /\ ~Permanent(i, resp) /\ Caught(i, resp)

\* a loop that runs one attempt more
HasRetry_OneMore(c, n) == n <= c.max_retries

\* if attempt < max_retries
HasRetry(c, n) == n < c.max_retries

RECURSIVE Pow(_, _)
Pow(b, e) == IF e = 0 THEN 1 ELSE b * Pow(b, e - 1)
Min(a, b) == IF a <= b THEN a ELSE b

\* seconds as milliseconds
Ms(sec) == sec * 1000

\* the sleep before the next attempt, without jitter: _exponential_backoff's
\* min(base_delay * exponential_base ** (attempt - 1), max_delay) in AudioClient,
\* asyncio.sleep(base_delay) in AudioService
Delay(i, c, n) ==
    IF i = "AudioClient"
    THEN Min(Ms(c.base_delay) * Pow(c.exponential_base, n - 1), Ms(c.max_delay))
    ELSE Ms(c.base_delay)

\* random.uniform(0, 0.1 * delay): none, half of the range, all of it
Jitters(i, delay) == IF i = "AudioClient" THEN {0, delay \div 20, delay \div 10} ELSE {0}

ClientUnchanged ==
    UNCHANGED <<regVars, k, audio_files, unitAudio, pageAudio, leadIn, returned,
                written, incTrue, cancelHit, scriptVars, batchVars>>

ClientInit == Init

\* _request_audio is called: the first client.post
RequestAudio(i, c) ==
    /\ pc \in {"idle", "returned"}
    /\ impl' = i
    /\ cfg' = c
    /\ attempt' = 1
    /\ posts' = 1
    /\ resps' = <<>>
    /\ waits' = <<>>
    /\ result' = "running"
    /\ pc' = "post"
    /\ ClientUnchanged

\* the post of the current attempt ends in resp and the loop body runs up to its
\* next await or return
ClientResponse(resp) ==
    /\ pc = "post"
    /\ resps' = Append(resps, resp)
    /\ IF resp = "ok"
       THEN \* audio decoded; asyncio.sleep(5) before the return
            /\ pc' = "throttle"
            /\ UNCHANGED <<waits, result>>
       ELSE IF Retried(impl, resp) /\ HasRetry(cfg, attempt)
       THEN \E jitter \in Jitters(impl, Delay(impl, cfg, attempt)) :
                /\ waits' = Append(waits, <<Delay(impl, cfg, attempt), jitter>>)
                /\ pc' = "backoff"
                /\ result' = result
       ELSE /\ pc' = "returned"
            /\ result' = IF Caught(impl, resp) THEN "None" ELSE "raise"
            /\ waits' = waits
    /\ UNCHANGED <<impl, cfg, attempt, posts>>
    /\ ClientUnchanged

\* the retry sleep ends: the next attempt's client.post
BackoffDone ==
    /\ pc = "backoff"
    /\ attempt' = attempt + 1
    /\ posts' = posts + 1
    /\ pc' = "post"
    /\ UNCHANGED <<impl, cfg, resps, waits, result>>
    /\ ClientUnchanged

\* asyncio.sleep(5) ends: return audio_bytes
ThrottleDone ==
    /\ pc = "throttle"
    /\ result' = "bytes"
    /\ pc' = "returned"
    /\ UNCHANGED <<impl, cfg, attempt, posts, resps, waits>>
    /\ ClientUnchanged

ClientNext ==
    \/ \E c \in ClientCfgs : RequestAudio("AudioClient", c)
    \/ RequestAudio("AudioService", ServiceCfg)
    \/ \E resp \in RespKinds : ClientResponse(resp)
    \/ BackoffDone
    \/ ThrottleDone

ClientSpec == ClientInit /\ [][ClientNext]_vars

\* ------------------------------------------------------------ ScriptSpec
\* One page of a project: its script file, its dialogue audio files and its page
\* audio file, under the requests of the script and audio APIs that edit the
\* script or synthesize audio.  Each request runs as a whole.

\* the dialogues of d, in order, whose audio file exists
ExistingAudio(d, ua) == SelectSeq(d, LAMBDA u : ua[u] > 0)

\* a list built in the order of the file names, not of the script
CollectAudioFiles_ByName(lead, d, ua) ==
    (IF lead THEN <<BeginFile>> ELSE <<>>)
        \o SelectSeq([i \in 1..NumUnits |-> i], LAMBDA u : u \in Range(d) /\ ua[u] > 0)

\* the audio_files list the three _regenerate_page_audio* methods build
CollectAudioFiles(lead, d, ua) ==
    (IF lead THEN <<BeginFile>> ELSE <<>>) \o ExistingAudio(d, ua)

\* a pop without index: the last dialogue goes, whichever id was asked
RemoveDialogue_Last(d, u) == SubSeq(d, 1, Len(d) - 1)

\* script.dialogues.pop(i)
RemoveDialogue(d, u) == SelectSeq(d, LAMBDA x : x # u)

\* enumerate(script.dialogues): the index of the dialogue with this id, 0 if none
IndexOf(d, u) == IF \E i \in 1..Len(d) : d[i] = u THEN CHOOSE i \in 1..Len(d) : d[i] = u ELSE 0

\* a, b = b, a on two positions of the list
Swap(d, i, j) == [d EXCEPT ![i] = d[j], ![j] = d[i]]

\* dialogue lists a PUT /api/scripts request can carry: ids without repetition
ScriptLists ==
    {d \in UNION {[1..n -> Units] : n \in 0..NumUnits} :
        \A i, j \in 1..Len(d) : i # j => d[i] # d[j]}

\* _regenerate_page_audio_after_move builds the lead-in path from three parents of
\* script_service.py, <root>/backend/backend/assets/cues.mp3, which is not where
\* the asset is: begin_audio_path.exists() is false there
MoveSeesLeadIn == FALSE

\* an empty list removes the page audio
MergedOrKept_Cleared(af, ua, old) == IF af # <<>> THEN MergeAudioFiles(af, ua) ELSE <<>>

\* a merge that adds to the page audio already there
MergedOrKept_Appending(af, ua, old) == IF af # <<>> THEN old \o MergeAudioFiles(af, ua) ELSE old

\* the page audio after a merge of af when af is not empty, else as it was
MergedOrKept(af, ua, old) == IF af # <<>> THEN MergeAudioFiles(af, ua) ELSE old

ScriptUnchanged ==
    UNCHANGED <<files, tasks, used, incSeen, pc, k, attempt, audio_files, returned,
                written, incTrue, cancelHit, clientVars, batchVars>>

\* a project whose page has its script, no audio yet
ScriptInit ==
    /\ files = NoTasks
    /\ tasks = LoadTasks(files)
    /\ used = {}
    /\ ret = Call("init", NoId, None, <<>>, NoTask, NoArg)
    /\ incSeen = [id \in Ids |-> NoArg]
    /\ pc = "idle"
    /\ k = 0
    /\ attempt = 0
    /\ audio_files = <<>>
    /\ unitAudio = [u \in Units |-> 0]
    /\ pageAudio = <<>>
    /\ leadIn \in BOOLEAN
    /\ returned = {}
    /\ written = {}
    /\ incTrue = 0
    /\ cancelHit = 0
    /\ ClientIdle
    /\ ScriptIdle
    /\ BatchIdle

\* generate_audio_for_dialogue with regenerate_page_audio = False: the dialogue
\* file is written and the page audio is left as it was
GenerateDialogueAudio_NoRegenerate(u, audio) ==
    /\ u \in Range(dialogues)
    /\ unitAudio[u] < MaxGen
    /\ IF audio = "bytes"
       THEN /\ unitAudio' = [unitAudio EXCEPT ![u] = @ + 1]
            /\ ret' = Call("dialogue", NoId, "success", <<>>, NoTask, NoArg)
       ELSE /\ ret' = Call("dialogue", NoId, "raise", <<>>, NoTask, NoArg)
            /\ UNCHANGED unitAudio
    /\ UNCHANGED <<dialogues, leadIn, beginFile, pageAudio>>
    /\ ScriptUnchanged

\* POST /api/audio/dialogue/generate: generate_audio_for_dialogue with
\* regenerate_page_audio = True; audio is what _request_audio returns
GenerateDialogueAudio(u, audio) ==
    /\ u \in Range(dialogues)
    /\ unitAudio[u] < MaxGen
    /\ IF audio = "bytes"
       THEN LET ua == [unitAudio EXCEPT ![u] = @ + 1]
                af == CollectAudioFiles(leadIn, dialogues, ua)
            IN /\ unitAudio' = ua
               /\ beginFile' = (beginFile \/ leadIn)
               /\ pageAudio' = MergedOrKept(af, ua, pageAudio)
               /\ ret' = Call("dialogue", NoId, "success", <<>>, NoTask, NoArg)
       ELSE /\ ret' = Call("dialogue", NoId, "raise", <<>>, NoTask, NoArg)
            /\ UNCHANGED <<unitAudio, beginFile, pageAudio>>
    /\ UNCHANGED <<dialogues, leadIn>>
    /\ ScriptUnchanged

\* generate_audio_for_page: oks are the dialogues whose _request_audio returns
\* bytes; the others are logged and skipped
GeneratePageAudio(oks) ==
    /\ oks \subseteq Range(dialogues)
    /\ \A u \in oks : unitAudio[u] < MaxGen
    /\ LET ua == [u \in Units |-> IF u \in oks THEN unitAudio[u] + 1 ELSE unitAudio[u]]
           af == (IF leadIn THEN <<BeginFile>> ELSE <<>>)
                     \o SelectSeq(dialogues, LAMBDA u : u \in oks)
       IN /\ unitAudio' = ua
          /\ beginFile' = (beginFile \/ leadIn)
          /\ pageAudio' = MergedOrKept(af, ua, pageAudio)
          /\ ret' = Call("page", NoId, IF af # <<>> THEN "success" ELSE "raise",
                         <<>>, NoTask, NoArg)
    /\ UNCHANGED <<dialogues, leadIn>>
    /\ ScriptUnchanged

\* add_dialogue_to_page: a dialogue with a new id is appended and the script saved
AddDialogue(u) ==
    /\ u \notin Range(dialogues)
    /\ unitAudio[u] = 0
    /\ dialogues' = Append(dialogues, u)
    /\ ret' = Call("add", NoId, "success", <<>>, NoTask, NoArg)
    /\ UNCHANGED <<unitAudio, pageAudio, leadIn, beginFile>>
    /\ ScriptUnchanged

\* delete_dialogue_by_id, with _delete_dialogue_audio and
\* _regenerate_page_audio_after_deletion
DeleteDialogue(u) ==
    /\ IF u \in Range(dialogues)
       THEN LET d  == RemoveDialogue(dialogues, u)
                ua == [unitAudio EXCEPT ![u] = 0]
                af == CollectAudioFiles(leadIn /\ beginFile, d, ua)
            IN /\ dialogues' = d
               /\ unitAudio' = ua
               /\ pageAudio' = MergedOrKept(af, ua, pageAudio)
               /\ ret' = Call("delete", NoId, "success", <<>>, NoTask, NoArg)
       ELSE /\ ret' = Call("delete", NoId, "None", <<>>, NoTask, NoArg)
            /\ UNCHANGED <<dialogues, unitAudio, pageAudio>>
    /\ UNCHANGED <<leadIn, beginFile>>
    /\ ScriptUnchanged

\* move_dialogue_by_id, with _regenerate_page_audio_after_move
MoveDialogue(u, direction) ==
    /\ LET i == IndexOf(dialogues, u)
           j == IF direction = "up" THEN i - 1 ELSE i + 1
       IN IF i = 0
          THEN /\ ret' = Call("move", NoId, "None", <<>>, NoTask, NoArg)
               /\ UNCHANGED <<dialogues, pageAudio>>
          ELSE IF j < 1 \/ j > Len(dialogues)
          THEN \* already first or last: returned as it is, nothing saved
               /\ ret' = Call("move", NoId, "edge", <<>>, NoTask, NoArg)
               /\ UNCHANGED <<dialogues, pageAudio>>
          ELSE LET d  == Swap(dialogues, i, j)
                   af == CollectAudioFiles(leadIn /\ MoveSeesLeadIn /\ beginFile, d, unitAudio)
               IN /\ dialogues' = d
                  /\ pageAudio' = MergedOrKept(af, unitAudio, pageAudio)
                  /\ ret' = Call("move", NoId, "success", <<>>, NoTask, NoArg)
    /\ UNCHANGED <<unitAudio, leadIn, beginFile>>
    /\ ScriptUnchanged

\* PUT /api/scripts/{project_id}/{page_number}: update_script_by_page_number
\* replaces the dialogue list and saves the script
UpdateScript(d) ==
    /\ \A u \in Range(d) : u \in Range(dialogues) \/ unitAudio[u] = 0
    /\ dialogues' = d
    /\ ret' = Call("update_script", NoId, "success", <<>>, NoTask, NoArg)
    /\ UNCHANGED <<unitAudio, pageAudio, leadIn, beginFile>>
    /\ ScriptUnchanged

ScriptNext ==
    \/ \E u \in Units, audio \in {"bytes", "None"} : GenerateDialogueAudio(u, audio)
    \/ \E oks \in SUBSET Units : GeneratePageAudio(oks)
    \/ \E u \in Units : AddDialogue(u)
    \/ \E u \in Units : DeleteDialogue(u)
    \/ \E u \in Units, direction \in {"up", "down"} : MoveDialogue(u, direction)
    \/ \E d \in ScriptLists : UpdateScript(d)

ScriptSpec == ScriptInit /\ [][ScriptNext]_vars

\* ------------------------------------------------------------- RegenSpec
\* The script requests together with the regeneration of the page's script.

\* the two retry helpers for the agent call
RetryImpls == {"ScriptClient", "ScriptService"}

\* generate_script_for_page calls the helper with default max_retries
script_max_retries == 3

\* what the agent does each time it is run: an output, or one of its exceptions
\* (a timeout, an error status of the model API, an output that fails validation)
AgentOutcomes == {"output", "timeout", "http_error", "bad_output"}

\* one attempt of the helper, agent being what agent.run does if it is run.
\* ScriptClient's helper awaits coro_func(); ScriptService's helper awaits the
\* object it was passed, and generate_script_for_page passes the function
\* run_agent itself: awaiting a function object raises TypeError and the agent
\* is not run
AttemptOutcome(i, agent) == IF i = "ScriptService" THEN "TypeError" ELSE agent

\* the helper's result over the attempts 1..n: the first output, else the raise
\* of the last attempt
RetryResult(i, n, agents) ==
    IF \E a \in 1..n : AttemptOutcome(i, agents[a]) = "output" THEN "output" ELSE "raise"

\* generate_script_for_page's loop over the existing dialogue ids, each through
\* delete_dialogue_by_id: the dialogue leaves the script, its audio file is
\* removed and the page audio is merged again
RECURSIVE DeleteAll(_, _, _, _)
DeleteAll(lead, d, ua, pa) ==
    IF d = <<>> THEN [unitAudio |-> ua, pageAudio |-> pa]
    ELSE LET ua1 == [ua EXCEPT ![Head(d)] = 0]
             af  == CollectAudioFiles(lead, Tail(d), ua1)
         IN DeleteAll(lead, Tail(d), ua1, MergedOrKept(af, ua1, pa))

\* scripts router, POST /generate: generate_script_for_page on a page; agents
\* is what the agent does at each attempt, d the dialogues of its output
RegenerateScript(agents, d) ==
    /\ LET del == DeleteAll(leadIn /\ beginFile, dialogues, unitAudio, pageAudio)
           res == RetryResult("ScriptService", script_max_retries, agents)
       IN /\ unitAudio' = del.unitAudio
          /\ pageAudio' = del.pageAudio
          /\ IF res = "output"
             THEN /\ \A u \in Range(d) : del.unitAudio[u] = 0
                  /\ dialogues' = d
                  /\ ret' = Call("generate_script", NoId, "success", <<>>, NoTask, NoArg)
             ELSE /\ d = <<>>
                  /\ dialogues' = <<>>
                  /\ ret' = Call("generate_script", NoId, "raise", <<>>, NoTask, NoArg)
    /\ UNCHANGED <<leadIn, beginFile>>
    /\ ScriptUnchanged

RegenNext ==
    \/ \E u \in Units, audio \in {"bytes", "None"} : GenerateDialogueAudio(u, audio)
    \/ \E oks \in SUBSET Units : GeneratePageAudio(oks)
    \/ \E u \in Units : AddDialogue(u)
    \/ \E u \in Units : DeleteDialogue(u)
    \/ \E u \in Units, direction \in {"up", "down"} : MoveDialogue(u, direction)
    \/ \E d \in ScriptLists : UpdateScript(d)
    \/ \E agents \in [1..script_max_retries -> AgentOutcomes] :
          \E d \in (IF RetryResult("ScriptService", script_max_retries, agents) = "output"
                     THEN ScriptLists ELSE {<<>>}) :
             RegenerateScript(agents, d)

RegenSpec == ScriptInit /\ [][RegenNext]_vars

\* ------------------------------------------------------------- RetrySpec
\* One call of _retry_with_exponential_backoff at a time, of ScriptClient
\* (core/script_client.py) or of ScriptService (services/script_service.py, the
\* one generate_script_for_page calls), around an agent that ends each run in
\* any of AgentOutcomes.

\* generate_script_for_page leaves max_retries and base_delay at their defaults;
\* generate_script_for_image passes its caller's max_retries on
ScriptCfg  == [max_retries |-> script_max_retries, base_delay |-> 5]
ScriptCfgs == {[ScriptCfg EXCEPT !.max_retries = n] : n \in 1..script_max_retries}

\* whether an attempt of the helper runs the agent: coro_func() does, awaiting
\* the function object does not
RunsAgent(i) == i = "ScriptClient"

\* the sleep before the next attempt: base_delay * (2 ** (attempt - 1)) in
\* ScriptClient, base_delay in ScriptService
ScriptDelay(i, c, n) ==
    IF i = "ScriptClient" THEN Ms(c.base_delay) * Pow(2, n - 1) ELSE Ms(c.base_delay)

RetryUnchanged ==
    UNCHANGED <<regVars, k, audio_files, unitAudio, pageAudio, leadIn, returned,
                written, incTrue, cancelHit, scriptVars, batchVars>>

RetryInit == Init

\* the helper is called: attempt 1 is about to run
CallRetry(i, c) ==
    /\ pc \in {"idle", "returned"}
    /\ impl' = i
    /\ cfg' = c
    /\ attempt' = 1
    /\ posts' = 0
    /\ resps' = <<>>
    /\ waits' = <<>>
    /\ result' = "running"
    /\ pc' = "attempt"
    /\ RetryUnchanged

\* the body of the loop for the current attempt, up to its sleep, return or
\* raise; agent is what agent.run ends in if it is run now.  resps keeps, per
\* attempt, agent and what the attempt ended in; posts counts the agent's runs
RetryAttempt(agent) ==
    /\ pc = "attempt"
    /\ LET out == AttemptOutcome(impl, agent)
       IN /\ resps' = Append(resps, <<agent, out>>)
          /\ posts' = IF RunsAgent(impl) THEN posts + 1 ELSE posts
          /\ IF out = "output"
             THEN /\ result' = "output"
                  /\ pc' = "returned"
                  /\ waits' = waits
             ELSE IF HasRetry(cfg, attempt)
             THEN /\ waits' = Append(waits, ScriptDelay(impl, cfg, attempt))
                  /\ pc' = "backoff"
                  /\ result' = result
             ELSE /\ result' = "raise"
                  /\ pc' = "returned"
                  /\ waits' = waits
    /\ UNCHANGED <<impl, cfg, attempt>>
    /\ RetryUnchanged

\* asyncio.sleep(delay) ends: the next attempt
RetrySleepDone ==
    /\ pc = "backoff"
    /\ attempt' = attempt + 1
    /\ pc' = "attempt"
    /\ UNCHANGED <<impl, cfg, posts, resps, waits, result>>
    /\ RetryUnchanged

RetryNext ==
    \/ \E c \in ScriptCfgs : CallRetry("ScriptClient", c)
    \/ CallRetry("ScriptService", ScriptCfg)
    \/ \E agent \in AgentOutcomes : RetryAttempt(agent)
    \/ RetrySleepDone

RetrySpec == RetryInit /\ [][RetryNext]_vars

\* ----------------------------------------------------------- RegistrySpec
\* Two tasks in the tasks directory.  The server process holds one TaskService
\* (tasks); a request or a loop step builds its own, which loads the task files
\* when it is built.  The process can die inside _save_task and be started again.

\* the id of a second task
OtherId     == "t2"
RegistryIds == {JobId, OtherId}

RegistryNoTasks == [id \in RegistryIds |-> NoTask]

\* the orders in which glob("*.json") can yield the task files
GlobOrders == {o \in [1..Cardinality(RegistryIds) -> RegistryIds] :
                 \A i, j \in DOMAIN o : o[i] = o[j] => i = j}

\* _load_tasks over the files in the order glob yields them, m being the map so
\* far: the try statement is around the whole loop, so the first file on which
\* json.load or model_validate raises ends the loading
RECURSIVE load_tasks(_, _, _)
load_tasks(order, fs, m) ==
    IF order = <<>> THEN m
    ELSE LET id == Head(order) IN
         IF fs[id] = NoTask THEN load_tasks(Tail(order), fs, m)
         ELSE IF ValidTask(fs[id])
         THEN load_tasks(Tail(order), fs, [m EXCEPT ![id] = fs[id]])
         ELSE m

\* self._tasks.pop(task_id, None), then the task's file is unlinked
delete_task(m, fs, id) ==
    IF Lookup(m, id) = NoTask THEN Result(m, fs, "False")
    ELSE Result([m EXCEPT ![id] = NoTask], [fs EXCEPT ![id] = NoTask], "True")

\* the instance a call is made on: the one the process holds, or one just built
Instances == {"held", "fresh"}
InstanceMap(inst, order) ==
    IF inst = "held" THEN tasks ELSE load_tasks(order, files, RegistryNoTasks)

RegistryUnchanged ==
    UNCHANGED <<incSeen, k, attempt, audio_files, unitAudio, pageAudio, leadIn,
                returned, written, incTrue, cancelHit, clientVars, scriptVars, batchVars>>

RegistryInit ==
    /\ files = RegistryNoTasks
    /\ tasks = RegistryNoTasks
    /\ used = {}
    /\ ret = Call("init", NoId, None, <<>>, NoTask, NoArg)
    /\ incSeen = [id \in Ids |-> NoArg]
    /\ PageIdle
    /\ ClientIdle
    /\ ScriptIdle
    /\ BatchIdle

\* the end of a call on instance inst whose result is r
Returns(op, id, inst, r) ==
    /\ files' = r.files
    /\ tasks' = IF inst = "held" THEN r.tasks ELSE tasks
    /\ ret' = Call(op, id, r.out, <<>>, NoTask, NoArg)
    /\ UNCHANGED <<pc, used>>
    /\ RegistryUnchanged

RegistryCreate(inst, order) ==
    /\ pc = "idle"
    /\ \E id \in RegistryIds \ used :
          LET task == Task(id, "audio_generation", MaxTotal)
              m    == InstanceMap(inst, order)
          IN /\ used' = used \cup {id}
             /\ files' = SaveTask(files, task)
             /\ tasks' = IF inst = "held" THEN [m EXCEPT ![id] = task] ELSE tasks
             /\ ret' = Call("create", id, "Task", <<>>, NoTask, NoArg)
    /\ pc' = pc
    /\ RegistryUnchanged

RegistryUpdate(id, status, inst, order) ==
    /\ pc = "idle"
    /\ Returns("update", id, inst,
               update_task_status(InstanceMap(inst, order), files, id, status,
                                  NoArg, NoArg, None))

RegistryIncrement(id, inst, order) ==
    /\ pc = "idle"
    /\ LET m == InstanceMap(inst, order) IN
       /\ Lookup(m, id) # NoTask => Lookup(m, id).current_step < MaxCounted
       /\ Returns("increment", id, inst, increment_task_progress(m, files, id))

RegistryCancel(id, inst, order) ==
    /\ pc = "idle"
    /\ Returns("cancel", id, inst, cancel_task(InstanceMap(inst, order), files, id))

RegistryDelete(id, inst, order) ==
    /\ pc = "idle"
    /\ Returns("delete", id, inst, delete_task(InstanceMap(inst, order), files, id))

\* the process dies at the _save_task of a call on the task id: after the
\* write, or inside it, which leaves the file torn
DieInSave(id, outcome) ==
    /\ pc = "idle"
    /\ ValidTask(files[id])
    /\ files' = IF outcome = "written" THEN files
                ELSE [files EXCEPT ![id] = Torn(id, outcome)]
    /\ tasks' = RegistryNoTasks
    /\ pc' = "crashed"
    /\ ret' = Call("save", id, outcome, <<>>, NoTask, NoArg)
    /\ UNCHANGED used
    /\ RegistryUnchanged

\* a new process: TaskService() loads the task files
RegistryRestart(order) ==
    /\ pc = "crashed"
    /\ pc' = "idle"
    /\ tasks' = load_tasks(order, files, RegistryNoTasks)
    /\ ret' = Call("init", NoId, None, <<>>, NoTask, NoArg)
    /\ UNCHANGED <<files, used>>
    /\ RegistryUnchanged

RegistryNext ==
    \/ \E inst \in Instances, order \in GlobOrders : RegistryCreate(inst, order)
    \/ \E id \in RegistryIds, status \in {RUNNING, COMPLETED},
          inst \in Instances, order \in GlobOrders :
          RegistryUpdate(id, status, inst, order)
    \/ \E id \in RegistryIds, inst \in Instances, order \in GlobOrders :
          RegistryIncrement(id, inst, order)
    \/ \E id \in RegistryIds, inst \in Instances, order \in GlobOrders :
          RegistryCancel(id, inst, order)
    \/ \E id \in RegistryIds, inst \in Instances, order \in GlobOrders :
          RegistryDelete(id, inst, order)
    \/ \E id \in RegistryIds, outcome \in WriteOutcomes : DieInSave(id, outcome)
    \/ \E order \in GlobOrders : RegistryRestart(order)

RegistrySpec == RegistryInit /\ [][RegistryNext]_vars

\* -------------------------------------------------------------- EditSpec
\* A page job with delete and move requests for the same page arriving while
\* the job is at one of its awaits.  generate_audio_for_page read the script
\* before its first request and iterates over that copy (Dialogues); the
\* requests change the script file (dialogues).

\* the page's job is queued; the page may have audio, and the lead-in copy, from
\* an earlier generation
EditInit ==
    /\ files = [id \in TaskIds |-> Task(id, "audio_generation", NumUnits)]
    /\ tasks = NoTasks
    /\ used = {JobId}
    /\ ret = Call("create", JobId, "Task", <<>>, NoTask, NoArg)
    /\ incSeen = [id \in Ids |-> NoArg]
    /\ pc = "queued"
    /\ k = 0
    /\ attempt = 0
    /\ audio_files = <<>>
    /\ unitAudio \in [Units -> {0, 1}]
    /\ pageAudio = <<>>
    /\ leadIn \in BOOLEAN
    /\ returned = {}
    /\ written = {}
    /\ incTrue = 0
    /\ cancelHit = 0
    /\ ClientIdle
    /\ dialogues = Dialogues
    /\ beginFile = leadIn
    /\ BatchIdle

\* the job is waiting for a response or in the sleep after one
AtAwait == pc \in {"post", "sleep"}

\* DELETE of a dialogue of the page, served while the job awaits
DeleteDuringJob(u) == AtAwait /\ DeleteDialogue(u)

\* a move of a dialogue of the page, served while the job awaits
MoveDuringJob(u, direction) == AtAwait /\ MoveDialogue(u, direction)

EditNext ==
    \/ \E check \in {"ok", "no_project", "no_script"} : BgStart(check)
    \/ \E resp \in {"valid", "failed"} : Response(resp)
    \/ UnitDone
    \/ \E u \in Units : DeleteDuringJob(u)
    \/ \E u \in Units, direction \in {"up", "down"} : MoveDuringJob(u, direction)

EditSpec == EditInit /\ [][EditNext]_vars

\* ------------------------------------------------------------ ConvertSpec
\* POST /api/projects/{project_id}/convert-pdf next to the requests that
\* create, read, advance and cancel tasks.

\* class TaskType: member name -> value
TaskTypeMembers ==
    [SCRIPT_GENERATION |-> "script_generation", AUDIO_GENERATION |-> "audio_generation"]

\* convert_pdf_to_images: the project and its PDF are checked, the pages are
\* counted, and TaskType.PDF_CONVERSION is evaluated for create_task; the
\* attribute lookup on the enum raises AttributeError when there is no such
\* member, inside the try whose handler answers 500
ConvertPdf(check, total_pages) ==
    IF check = "no_project"
    THEN /\ ret' = Call("convert_pdf", NoId, "404", <<>>, NoTask, NoArg)
         /\ UNCHANGED <<files, tasks, used, incSeen, pageVars, clientVars, scriptVars, batchVars>>
    ELSE IF check = "no_pdf"
    THEN /\ ret' = Call("convert_pdf", NoId, "400", <<>>, NoTask, NoArg)
         /\ UNCHANGED <<files, tasks, used, incSeen, pageVars, clientVars, scriptVars, batchVars>>
    ELSE IF "PDF_CONVERSION" \notin DOMAIN TaskTypeMembers
    THEN /\ ret' = Call("convert_pdf", NoId, "500", <<total_pages>>, NoTask, NoArg)
         /\ UNCHANGED <<files, tasks, used, incSeen, pageVars, clientVars, scriptVars, batchVars>>
    ELSE \E id \in TaskIds \ used :
         LET task == Task(id, TaskTypeMembers["PDF_CONVERSION"], total_pages) IN
         /\ used' = used \cup {id}
         /\ tasks' = [tasks EXCEPT ![id] = task]
         /\ files' = SaveTask(files, task)
         /\ ret' = Call("convert_pdf", id, "Task", <<total_pages>>, NoTask, NoArg)
         /\ incSeen' = [incSeen EXCEPT ![id] = NoArg]
         /\ UNCHANGED <<pageVars, clientVars, scriptVars, batchVars>>

ConvertNext ==
    \/ NewTaskService
    \/ \E type \in TaskType, total \in TotalInputs : CreateTask(type, total)
    \/ \E id \in Ids : GetTask(id)
    \/ \E id \in Ids : IncrementTaskProgress(id)
    \/ \E id \in Ids : CancelTask(id)
    \/ \E check \in {"ok", "no_project", "no_pdf"}, total_pages \in 1..NumPages :
          ConvertPdf(check, total_pages)

ConvertSpec == Init /\ [][ConvertNext]_vars

\* ------------------------------------------------------------- BatchSpec
\* One batch audio-generation job: batch_generate_audio_task driving
\* AudioService.batch_generate_audio, one step per page, interleaved with the
\* task API between pages.

\* the script files a project can have: per page none, or a script with
\* 0..MaxDialogues dialogues
PageScripts == [Pages -> {NoArg} \cup {<<n>> : n \in 0..MaxDialogues}]

\* sorted(scripts_dir.glob("script_*.json")): the pages that have a script file
ScriptPages(sc) == {p \in Pages : sc[p] # NoArg}

\* has_scripts: some page has a script with dialogues
HasScripts(sc) == \E p \in Pages : sc[p] # NoArg /\ sc[p][1] > 0

\* the script file after page p in the sorted list, 0 when p was the last
NextPage(sc, p) ==
    IF \E q \in ScriptPages(sc) : q > p
    THEN CHOOSE q \in ScriptPages(sc) : q > p /\ \A x \in ScriptPages(sc) : x > p => q <= x
    ELSE 0

\* POST /api/audio/batch-generate has created the task, total_steps =
\* len(project.images), and queued the background task
BatchInit ==
    /\ files = [id \in TaskIds |-> Task(id, "audio_generation", NumPages)]
    /\ tasks = NoTasks
    /\ used = {JobId}
    /\ ret = Call("create", JobId, "Task", <<>>, NoTask, NoArg)
    /\ incSeen = [id \in Ids |-> NoArg]
    /\ pc = "batch_queued"
    /\ k = 0
    /\ attempt = 0
    /\ audio_files = <<>>
    /\ unitAudio = [u \in Units |-> 0]
    /\ pageAudio = <<>>
    /\ leadIn \in BOOLEAN
    /\ returned = {}
    /\ written = {}
    /\ incTrue = 0
    /\ cancelHit = 0
    /\ ClientIdle
    /\ dialogues = [i \in 1..NumUnits |-> i]
    /\ beginFile = FALSE
    /\ scripts \in PageScripts
    /\ attempted = {}
    /\ pageFiles = [p \in Pages |-> <<>>]

\* batch_generate_audio_task up to its first await: the task's own TaskService is
\* built, project, images and scripts are checked, the task is set RUNNING and
\* batch_generate_audio starts on the first script file
BatchStart(check) ==
    /\ pc = "batch_queued"
    /\ LET m    == LoadTasks(files)
           pass == check = "ok" /\ HasScripts(scripts)
           r    == IF pass
                   THEN update_task_status(m, files, JobId, RUNNING, NoArg, NoArg, None)
                   ELSE update_task_status(m, files, JobId, FAILED, NoArg, NoArg, ErrText)
       IN /\ tasks' = r.tasks
          /\ files' = r.files
          /\ ret' = Call("batch_start", JobId, r.out, <<>>, NoTask, NoArg)
          /\ IF pass
             THEN /\ pc' = "batch_page"
                  /\ k' = NextPage(scripts, 0)
             ELSE /\ pc' = "done"
                  /\ UNCHANGED k
    /\ UNCHANGED <<used, incSeen, attempt, audio_files, unitAudio, pageAudio, leadIn,
                   returned, written, incTrue, cancelHit, clientVars, scriptVars, batchVars>>

\* generate_audio_for_page(project_id, k) inside the batch loop; oks are the
\* dialogues of page k whose synthesis succeeds.  An empty audio_files makes it
\* raise, the exception leaves the loop of batch_generate_audio and the
\* background task sets the task FAILED; otherwise the page audio is merged, a
\* new TaskService increments the task, and after the last script file the
\* background task sets the task COMPLETED
BatchPage(oks) ==
    /\ pc = "batch_page"
    /\ oks \subseteq 1..scripts[k][1]
    /\ attempted' = attempted \cup {k}
    /\ LET af == (IF k = 1 /\ leadIn THEN <<BeginFile>> ELSE <<>>)
                     \o SelectSeq([i \in 1..scripts[k][1] |-> i], LAMBDA i : i \in oks)
       IN IF af = <<>>
          THEN LET r == update_task_status(tasks, files, JobId, FAILED, NoArg, NoArg, ErrText)
               IN /\ tasks' = r.tasks
                  /\ files' = r.files
                  /\ ret' = Call("batch_page", JobId, "raise", <<>>, NoTask, NoArg)
                  /\ pc' = "done"
                  /\ UNCHANGED <<k, pageFiles, incTrue>>
          ELSE LET inc == increment_task_progress(LoadTasks(files), files, JobId)
                   nxt == NextPage(scripts, k)
                   fin == update_task_status(tasks, inc.files, JobId, COMPLETED, One, NoArg, None)
               IN /\ pageFiles' = [pageFiles EXCEPT ![k] = af]
                  /\ incTrue' = IF inc.out = "True" THEN incTrue + 1 ELSE incTrue
                  /\ ret' = Call("batch_page", JobId, inc.out, <<>>, NoTask, NoArg)
                  /\ IF nxt = 0
                     THEN /\ pc' = "done"
                          /\ tasks' = fin.tasks
                          /\ files' = fin.files
                          /\ UNCHANGED k
                     ELSE /\ pc' = "batch_page"
                          /\ k' = nxt
                          /\ files' = inc.files
                          /\ UNCHANGED tasks
    /\ UNCHANGED <<used, incSeen, attempt, audio_files, unitAudio, pageAudio, leadIn,
                   returned, written, cancelHit, clientVars, scriptVars, scripts>>

BatchNext ==
    \/ \E check \in {"ok", "no_project", "no_images"} : BatchStart(check)
    \/ \E oks \in SUBSET (1..MaxDialogues) : BatchPage(oks)
    \/ ApiCancel

BatchSpec == BatchInit /\ [][BatchNext]_vars

\* --------------------------------------------------------------- JobSpec
\* A page job or a batch job, whichever the client asked for.
JobInit == PageInit \/ BatchInit

JobNext ==
    \/ \E check \in {"ok", "no_project", "no_script"} : BgStart(check)
    \/ \E resp \in {"valid", "failed"} : Response(resp)
    \/ UnitDone
    \/ \E check \in {"ok", "no_project", "no_images"} : BatchStart(check)
    \/ \E oks \in SUBSET (1..MaxDialogues) : BatchPage(oks)
    \/ ApiCancel

JobSpec == JobInit /\ [][JobNext]_vars

\* a step of the job's background task.  The event loop runs the task whenever
\* it is ready, and every request it awaits returns or times out (the httpx
\* client has timeout = 60), so the task's next step is always taken in the end
JobStep ==
    \/ \E check \in {"ok", "no_project", "no_script"} : BgStart(check)
    \/ \E resp \in {"valid", "failed"} : Response(resp)
    \/ UnitDone
    \/ \E check \in {"ok", "no_project", "no_images"} : BatchStart(check)
    \/ \E oks \in SUBSET (1..MaxDialogues) : BatchPage(oks)

JobLiveSpec == JobInit /\ [][JobNext]_vars /\ WF_vars(JobStep)

\* ---------------------------------------------------------- AssembleSpec
\* The three methods that rebuild a page audio file, each applied to a page in
\* any state: any dialogue list, any set of dialogue audio files, with or without
\* lead-in, with or without an earlier page audio.

\* an earlier page audio: none, or one made of a single dialogue's audio
OldPageAudios == {<<>>, <<<<1, 1>>>>}

AssembleInit ==
    /\ files = NoTasks
    /\ tasks = LoadTasks(files)
    /\ used = {}
    /\ ret = Call("init", NoId, None, <<>>, NoTask, NoArg)
    /\ incSeen = [id \in Ids |-> NoArg]
    /\ pc = "idle"
    /\ k = 0
    /\ attempt = 0
    /\ audio_files = <<>>
    /\ unitAudio \in [Units -> 0..MaxGen]
    /\ pageAudio \in OldPageAudios
    /\ leadIn \in BOOLEAN
    /\ returned = {}
    /\ written = {}
    /\ incTrue = 0
    /\ cancelHit = 0
    /\ ClientIdle
    /\ dialogues \in ScriptLists
    /\ beginFile \in {FALSE, leadIn}
    /\ BatchIdle

\* the call record of an assembly: "again" when the same method ran just before
Assembled(method) ==
    Call(method, NoId, IF ret.op = method THEN "again" ELSE "first", <<>>, NoTask, NoArg)

AssembleUnchanged ==
    /\ ScriptUnchanged
    /\ UNCHANGED <<dialogues, unitAudio, leadIn>>

\* AudioService._regenerate_page_audio
RegeneratePageAudio ==
    /\ pageAudio' = MergedOrKept(CollectAudioFiles(leadIn, dialogues, unitAudio),
                                 unitAudio, pageAudio)
    /\ beginFile' = (beginFile \/ leadIn)
    /\ ret' = Assembled("_regenerate_page_audio")
    /\ AssembleUnchanged

\* ScriptService._regenerate_page_audio_after_move
RegenerateAfterMove ==
    /\ pageAudio' = MergedOrKept(
                        CollectAudioFiles(leadIn /\ MoveSeesLeadIn /\ beginFile, dialogues, unitAudio),
                        unitAudio, pageAudio)
    /\ ret' = Assembled("_regenerate_page_audio_after_move")
    /\ UNCHANGED beginFile
    /\ AssembleUnchanged

\* ScriptService._regenerate_page_audio_after_deletion
RegenerateAfterDeletion ==
    /\ pageAudio' = MergedOrKept(
                        CollectAudioFiles(leadIn /\ beginFile, dialogues, unitAudio),
                        unitAudio, pageAudio)
    /\ ret' = Assembled("_regenerate_page_audio_after_deletion")
    /\ UNCHANGED beginFile
    /\ AssembleUnchanged

AssembleNext ==
    \/ RegeneratePageAudio
    \/ RegenerateAfterMove
    \/ RegenerateAfterDeletion

AssembleSpec == AssembleInit /\ [][AssembleNext]_vars

\* ------------------------------------------------------------- properties
Less(p, q) == p[1] * q[2] < q[1] * p[2]
Records == {tasks[id] : id \in TaskIds} \cup {files[id] : id \in TaskIds}

\* C1: once the job's persisted status is COMPLETED or FAILED, no step of the
\* background task or of the API changes it.
C1_TerminalStatusNeverChanges ==
    [][files[JobId].status \in Terminal => files'[JobId].status = files[JobId].status]_vars

\* C2: an increment on a job whose status is COMPLETED or FAILED returns False and
\* leaves the job's record as it was.
C2_IncrementRejectedWhenTerminal ==
    (ret.op = "increment" /\ ret.pre # NoTask /\ ret.pre.status \in Terminal)
        => (ret.out = "False" /\ tasks[ret.id] = ret.pre /\ files[ret.id] = ret.pre)

\* C3: after every increment the progress is at most 1.0, equals
\* min(1, current_step / total_steps) when total_steps > 0, and is not below the
\* progress seen after the previous increment when nothing else mutated the job
\* in between.
C3_IncrementProgressMonotone ==
    (ret.op = "increment" /\ ret.out = "True") =>
        LET t == tasks[ret.id] IN
        /\ Leq(t.progress, One)
        /\ t.total_steps > 0 =>
              t.progress = IF t.current_step >= t.total_steps THEN One
                           ELSE Frac(t.current_step, t.total_steps)
        /\ ret.seen # NoArg => Leq(ret.seen, t.progress)

\* a second increment in a row raised the progress
C3_Witness ==
    /\ ret.op = "increment"
    /\ ret.out = "True"
    /\ ret.seen # NoArg
    /\ Less(ret.seen, tasks[ret.id].progress)
    /\ tasks[ret.id].current_step = tasks[ret.id].total_steps

\* C4: no registry call that finds the job RUNNING and leaves it RUNNING lowers
\* its progress.
C4_RunningProgressNeverDecreases ==
    [][(tasks[JobId] # NoTask /\ tasks[JobId].status = RUNNING /\ tasks'[JobId].status = RUNNING)
          => Leq(tasks[JobId].progress, tasks'[JobId].progress)]_vars

\* C5: a job with total_steps > 0 never has current_step above total_steps.
C5_StepWithinTotal ==
    \A t \in Records : (t # NoTask /\ t.total_steps > 0) => t.current_step <= t.total_steps

\* C6: cancel of a PENDING or RUNNING job returns True and leaves it FAILED with
\* the cancelled message and nothing else changed; cancel of a COMPLETED or
\* FAILED job returns False and changes nothing.
C6_CancelOnlyFromActive ==
    (ret.op = "cancel" /\ ret.pre # NoTask) =>
        IF ret.pre.status \in {PENDING, RUNNING}
        THEN /\ ret.out = "True"
             /\ tasks[ret.id] = [ret.pre EXCEPT !.status = FAILED, !.error_message = Cancelled]
             /\ files[ret.id] = tasks[ret.id]
        ELSE /\ ret.out = "False"
             /\ tasks[ret.id] = ret.pre
             /\ files[ret.id] = ret.pre

\* the second of two cancels: refused on the job the first one cancelled
C6_Witness ==
    /\ ret.op = "cancel"
    /\ ret.out = "False"
    /\ ret.pre # NoTask
    /\ ret.pre.status = FAILED
    /\ ret.pre.error_message = Cancelled

\* C7: a cancel that succeeds leaves the job FAILED at once; the unit in flight
\* at that moment, once its request has returned audio and the loop has passed
\* it, has had its file written by the job, and the page audio the job then
\* merges contains that file's audio.
UnitFinished(u) == pc = "done" \/ (pc \in {"post", "sleep"} /\ k > u)

C7_CancelIsAdvisory ==
    /\ (ret.op = "cancel" /\ ret.out = "True") => files[JobId].status = FAILED
    /\ (cancelHit # 0 /\ cancelHit \in returned /\ UnitFinished(cancelHit))
          => (cancelHit \in written /\ unitAudio[cancelHit] > 0)
    /\ (cancelHit # 0 /\ cancelHit \in returned /\ pc = "done")
          => <<cancelHit, unitAudio[cancelHit]>> \in Range(pageAudio)

\* the job ended after a cancel hit a unit whose request then returned audio
C7_Witness ==
    /\ pc = "done"
    /\ cancelHit # 0
    /\ cancelHit \in returned
    /\ <<cancelHit, unitAudio[cancelHit]>> \in Range(pageAudio)

\* C8: the job's persisted current_step always equals the number of increment
\* calls that returned True, and its persisted progress never decreases.
C8_IncrementsLinearized ==
    [][/\ files'[JobId].current_step = incTrue'
       /\ Leq(files[JobId].progress, files'[JobId].progress)]_vars

\* C9: get, increment, update and cancel on an id the registry does not hold
\* return None / False, never raise, and leave the map and the files unchanged.
C9_UnknownIdNotFound ==
    [][(ret'.op \in {"get", "increment", "update", "cancel"} /\ Lookup(tasks, ret'.id) = NoTask)
          => /\ ret'.out = IF ret'.op = "get" THEN "None" ELSE "False"
             /\ tasks' = tasks
             /\ files' = files]_vars

\* an increment on the unregistered id was refused while a job was registered
C9_Witness ==
    /\ ret.op = "increment"
    /\ ret.id = NoId
    /\ ret.out = "False"
    /\ tasks[JobId] # NoTask

\* C10: every record, in memory and persisted, has 0 <= progress <= 1 and
\* current_step >= 0.
C10_FieldsInRange ==
    \A t \in Records :
        t # NoTask => (Leq(Zero, t.progress) /\ Leq(t.progress, One) /\ t.current_step >= 0)

\* an update passed progress 1.5 and current_step -1
C10_Witness ==
    /\ ret.op = "update"
    /\ ret.out = "True"
    /\ ret.args[2] = <<3, 2>>
    /\ ret.args[3] = <<-1>>

\* C11: a successful update that passes an error_message stores it; one that
\* passes none clears the stored message when the new status is RUNNING and
\* leaves it as it was for every other status; the persisted record agrees.
C11_ErrorMessageOnUpdate ==
    [][(ret'.op = "update" /\ ret'.out = "True") =>
          LET id == ret'.id
              status == ret'.args[1]
              error_message == ret'.args[4]
          IN /\ tasks'[id].error_message =
                    IF error_message # None THEN error_message
                    ELSE IF status = RUNNING THEN None
                    ELSE tasks[id].error_message
             /\ files'[id].error_message = tasks'[id].error_message]_vars

\* an update to COMPLETED without a message kept the message a cancel had stored
C11_Witness ==
    /\ ret.op = "update"
    /\ ret.out = "True"
    /\ ret.args[1] = COMPLETED
    /\ ret.args[4] = None
    /\ tasks[ret.id].error_message = Cancelled

\* C12: a create that returns a task took an id that no task in the map or in
\* the files had, and leaves under that id, in the map and in the files, a task
\* that is PENDING with progress 0, current_step 0, no error and the caller's
\* type and total_steps; get of that id then returns the task.
C12_CreateRegistersFreshJob ==
    [][(ret'.op = "create" /\ ret'.out = "Task") =>
          LET id == ret'.id
              t == tasks'[id]
          IN /\ id \notin used
             /\ Lookup(tasks, id) = NoTask
             /\ Lookup(files, id) = NoTask
             /\ t = [id |-> id, type |-> ret'.args[1], status |-> PENDING,
                     progress |-> Zero, current_step |-> 0,
                     total_steps |-> ret'.args[2], error_message |-> None]
             /\ files'[id] = t
             /\ get_task(tasks', id) = "Task"]_vars

\* a task was created with total_steps MaxTotal
C12_Witness ==
    /\ ret.op = "create"
    /\ ret.out = "Task"
    /\ ret.args[2] = MaxTotal
    /\ files[ret.id].total_steps = MaxTotal
    /\ files[ret.id].status = PENDING

\* C13: while the process is up every task's file equals its record in memory,
\* and at every moment, a crash inside a write included, every task file that
\* exists parses and validates as a task.
C13_PersistedRecordNeverTorn ==
    \A id \in TaskIds :
        /\ (pc = "idle" /\ tasks[id] # NoTask) => files[id] = tasks[id]
        /\ files[id] # NoTask => ValidTask(files[id])

\* C14: a _request_audio with max_retries = 3 whose posts have all ended in a
\* 500 has issued at most 3 posts, has not raised, and once it has returned has
\* issued exactly 3 and returned None.
C14_ThreeAttemptsOnServerError ==
    (cfg.max_retries = 3 /\ resps # <<>> /\ \A i \in 1..Len(resps) : resps[i] = "s500") =>
        /\ posts <= 3
        /\ result \in {"running", "None"}
        /\ pc = "returned" => (posts = 3 /\ result = "None")

\* a call returned None after three 500 responses
C14_Witness ==
    /\ pc = "returned"
    /\ resps = <<"s500", "s500", "s500">>
    /\ posts = 3
    /\ result = "None"

\* C15: a 400 response is the last one of its call, in AudioClient and in
\* AudioService: the call returns None on it without a retry sleep, and a call
\* whose first response is a 400 has issued exactly 1 post.
C15_ClientErrorNeverRetried ==
    \A i \in 1..Len(resps) :
        resps[i] = "s400" =>
            /\ i = Len(resps)
            /\ pc = "returned"
            /\ result = "None"
            /\ Len(waits) = i - 1
            /\ i = 1 => posts = 1

\* C16: when an attempt that is not the last ends in a timeout, a 500, a 429 or
\* a validation failure, the call begins a retry sleep, and the end of that sleep
\* is the post of the next attempt; an "ok" response is followed by no other
\* post and the call returns its audio bytes.
C16_RetryThenFirstSuccessReturned ==
    [][/\ (pc = "post" /\ attempt < cfg.max_retries /\ Len(resps') = Len(resps) + 1
            /\ resps'[Len(resps')] \in {"timeout", "s500", "s429", "invalid"})
          => (pc' = "backoff" /\ Len(waits') = Len(waits) + 1 /\ result' = "running")
       /\ pc = "backoff"
          => (pc' = "post" /\ attempt' = attempt + 1 /\ posts' = posts + 1)
       /\ (pc = "post" /\ Len(resps') = Len(resps) + 1 /\ resps'[Len(resps')] = "ok")
          => (pc' = "throttle" /\ posts' = posts)
       /\ pc = "throttle"
          => (pc' = "returned" /\ result' = "bytes" /\ posts' = posts)]_vars

\* a call returned bytes on its third attempt, after a timeout and a 429
C16_Witness ==
    /\ pc = "returned"
    /\ result = "bytes"
    /\ resps = <<"timeout", "s429", "ok">>
    /\ posts = 3
    /\ Len(waits) = 2

\* the classification of an error: timeout, http, validation or unknown
Classification(resp) ==
    CASE resp = "timeout" -> "timeout"
      [] resp \in ErrorStatus -> "http"
      [] resp \in {"invalid", "undecodable"} -> "validation"
      [] OTHER -> "unknown"

\* C17: a call that has used up its attempts returns a value that tells the
\* classification of its last error.
C17_FailureCarriesClassification ==
    (pc = "returned" /\ result # "bytes" /\ posts = cfg.max_retries) =>
        result = Classification(resps[Len(resps)])

\* C18: the i-th retry sleep of a call (the one after attempt i) is
\* min(base_delay * multiplier^(i-1), max_delay) plus a jitter between 0 and a
\* tenth of it, with the client's own parameters in AudioClient and the defaults
\* in AudioService; no sleep is above max_delay plus a tenth; a call begins no
\* retry sleep after its last attempt.
C18_BackoffSchedule ==
    LET c == IF impl = "AudioClient" THEN cfg ELSE DefaultCfg IN
    /\ \A i \in 1..Len(waits) :
          /\ waits[i][1] = Min(Ms(c.base_delay) * Pow(c.exponential_base, i - 1), Ms(c.max_delay))
          /\ waits[i][2] >= 0
          /\ 10 * waits[i][2] <= waits[i][1]
          /\ 10 * (waits[i][1] + waits[i][2]) <= 11 * Ms(c.max_delay)
    /\ Len(waits) < c.max_retries
    /\ pc = "returned" => Len(waits) < posts

\* the page audio the current script and the current dialogue audio files give:
\* the lead-in on page 1, then each dialogue's audio that exists, in script order
ExpectedPageAudio ==
    MergeAudioFiles(CollectAudioFiles(leadIn, dialogues, unitAudio), unitAudio)

\* C19: a page audio file that exists, while the page has a lead-in or some
\* dialogue audio, is the lead-in (page 1) followed by the audio of exactly the
\* dialogues whose audio file exists, as those files are now, in the script's
\* current order.
C19_PageAudioIsCurrent ==
    (pageAudio # <<>> /\ ExpectedPageAudio # <<>>) => pageAudio = ExpectedPageAudio

\* the dialogue part of a page audio
UnitChunks(pa) == SelectSeq(pa, LAMBDA c : c[1] # BeginFile)

WrittenInOrder == SelectSeq(Dialogues, LAMBDA u : u \in written)

\* C21: when a page job has ended and wrote the audio of some of the page's
\* dialogues, the dialogue part of the page audio is the audio of exactly those
\* dialogues in script order, with nothing in the place of the ones whose
\* synthesis failed, and the job is COMPLETED, not FAILED.
C21_GapSkipping ==
    (pc = "done" /\ written # {}) =>
        /\ UnitChunks(pageAudio) = [i \in 1..Len(WrittenInOrder) |->
                                       <<WrittenInOrder[i], unitAudio[WrittenInOrder[i]]>>]
        /\ files[JobId].status = COMPLETED

\* the job ended with dialogues 1 and 3 synthesized and dialogue 2 failed
C21_Witness ==
    /\ pc = "done"
    /\ written = {1, 3}
    /\ returned = {1, 3}
    /\ Len(UnitChunks(pageAudio)) = 2
    /\ files[JobId].status = COMPLETED

\* C22: an assembly leaves every dialogue audio file as it was, and an assembly
\* by the method that ran just before, on the same dialogue list and the same
\* dialogue audio files, leaves the page audio that the first run left.
C22_AssemblyIdempotent ==
    [][/\ unitAudio' = unitAudio
       /\ dialogues' = dialogues
       /\ ret'.out = "again" => pageAudio' = pageAudio]_vars

\* _regenerate_page_audio ran twice on a page with lead-in and three dialogue audios
C22_Witness ==
    /\ ret.op = "_regenerate_page_audio"
    /\ ret.out = "again"
    /\ leadIn
    /\ dialogues = <<2, 1, 3>>
    /\ pageAudio = <<<<BeginFile, 1>>, <<2, unitAudio[2]>>, <<1, unitAudio[1]>>, <<3, unitAudio[3]>>>>
    /\ \A u \in Units : unitAudio[u] > 0

C24_LeadInOnEveryPath ==
    [][(/\ ret'.op \in {"dialogue", "delete", "move"}
        /\ ret'.out = "success"
        /\ ExistingAudio(dialogues', unitAudio') # <<>>)
          => IF leadIn
             THEN /\ pageAudio' # <<>>
                  /\ pageAudio'[1][1] = BeginFile
                  /\ Len(UnitChunks(pageAudio')) = Len(pageAudio') - 1
             ELSE UnitChunks(pageAudio') = pageAudio']_vars

\* the chunks of the dialogues of list d that have an audio file, in the order of d
ChunksInOrder(d, ua) ==
    LET e == SelectSeq(d, LAMBDA u : ua[u] > 0)
    IN [i \in 1..Len(e) |-> <<e[i], ua[e[i]]>>]

C26_DialogueSynthesisReassembles ==
    [][(ret'.op = "dialogue" /\ ret'.out = "success")
          => /\ \E u \in Range(dialogues) : unitAudio' = [unitAudio EXCEPT ![u] = @ + 1]
             /\ dialogues' = dialogues
             /\ UnitChunks(pageAudio') = ChunksInOrder(dialogues, unitAudio')]_vars

\* dialogue 2 was synthesized a second time; the page audio holds the new file
\* between the files of dialogues 1 and 3
C26_Witness ==
    /\ ret.op = "dialogue"
    /\ ret.out = "success"
    /\ dialogues = <<1, 2, 3>>
    /\ unitAudio = [u \in Units |-> IF u = 2 THEN 2 ELSE 1]
    /\ UnitChunks(pageAudio) = <<<<1, 1>>, <<2, 2>>, <<3, 1>>>>

\* the dialogues of page p whose synthesis failed in the batch
FailedOnPage(p) ==
    scripts[p][1] - Len(SelectSeq(pageFiles[p], LAMBDA f : f # BeginFile))

\* C27: in a batch over scripts that all have dialogues, in which the synthesis
\* of exactly one dialogue failed and every other one succeeded, every page
\* that has a script is attempted, and the job is not FAILED unless it was
\* cancelled.
C27_UnitFailureNeverAborts ==
    (/\ pc = "done"
     /\ attempted # {}
     /\ \A p \in ScriptPages(scripts) : scripts[p][1] > 0
     /\ \E p \in attempted : /\ FailedOnPage(p) = 1
                             /\ \A q \in attempted \ {p} : FailedOnPage(q) = 0)
        => /\ attempted = ScriptPages(scripts)
           /\ files[JobId].status = FAILED => files[JobId].error_message = Cancelled

\* the page job merged its page audio, or the batch job merged the page audio
\* of every page that has a script: no exception left the generation
Processed ==
    \/ pageAudio # <<>>
    \/ /\ attempted # {}
       /\ attempted = ScriptPages(scripts)
       /\ \A p \in attempted : pageFiles[p] # <<>>

C30_ConversionCreatesJob ==
    (ret.op = "convert_pdf" /\ ret.args # <<>>)
        => /\ ret.out = "Task"
           /\ Lookup(files, ret.id) # NoTask
           /\ files[ret.id].status = PENDING
           /\ files[ret.id].type \notin {"script_generation", "audio_generation"}
           /\ files[ret.id].total_steps = ret.args[1]

\* C31: in a page job the task's current_step, in the file and in the job's
\* own TaskService, and the number of increments that returned True are at most
\* the number of dialogues whose audio file the job has written; each of those
\* dialogues is one whose request returned audio, and its file exists.
C31_IncrementAfterPersist ==
    /\ files[JobId].current_step <= Cardinality(written)
    /\ Lookup(tasks, JobId) # NoTask => tasks[JobId].current_step <= Cardinality(written)
    /\ incTrue <= Cardinality(written)
    /\ written \subseteq returned
    /\ \A u \in written : unitAudio[u] > 0

\* dialogue 1 failed after its retries, dialogue 2 was written and counted, and
\* the job is at dialogue 3
C31_Witness ==
    /\ pc = "post"
    /\ k = 3
    /\ written = {2}
    /\ returned = {2}
    /\ files[JobId].current_step = 1
    /\ incTrue = 1

C33_CurrentStepNeverDecreases ==
    [][files'[JobId].current_step >= files[JobId].current_step]_vars

\* a task file with status COMPLETED has no error_message, and a task file whose
\* error_message is the one cancel_task stores has status FAILED
MessageMatchesStatus(fs) ==
    \A id \in TaskIds :
        fs[id] # NoTask =>
            /\ fs[id].status = COMPLETED => fs[id].error_message = None
            /\ fs[id].error_message = Cancelled => fs[id].status = FAILED

\* C34: no request, other than a status update that itself passes an
\* error_message, takes the task files from a state where every COMPLETED task
\* has no error_message and the cancelled message goes only with FAILED to a
\* state where that is no longer so.
C34_MessageMatchesStatus ==
    [][(/\ MessageMatchesStatus(files)
        /\ ~(ret'.op = "update" /\ ret'.args # <<>> /\ ret'.args[4] # None))
          => MessageMatchesStatus(files')]_vars

\* the dialogue ids of the chunks of a page audio, lead-in left out
ChunkIds(pa) == [i \in 1..Len(UnitChunks(pa)) |-> UnitChunks(pa)[i][1]]

\* C35: when a page job has ended and delete or move requests that came while
\* it was running have changed the page's dialogue list, the page audio holds
\* audio only of dialogues still in the list, each once, in the list's order,
\* and a job that wrote some dialogue's audio has ended COMPLETED.
C35_EditDuringJob ==
    (pc = "done" /\ dialogues # Dialogues)
        => /\ ChunkIds(pageAudio) =
                  SelectSeq(dialogues, LAMBDA u : \E i \in 1..Len(pageAudio) : pageAudio[i][1] = u)
           /\ written # {} => files[JobId].status = COMPLETED

\* C36: every dialogue audio file of the page belongs to a dialogue that is in
\* the page's script.
C36_NoAudioOfRemovedDialogue ==
    \A u \in Units : unitAudio[u] > 0 => u \in Range(dialogues)

\* C37: a regeneration of the script of a page that has dialogues, when the
\* generation raises, leaves the dialogue list and the dialogue audio files as
\* they were.
C37_FailedRegenerationKeepsScript ==
    [][(ret'.op = "generate_script" /\ ret'.out = "raise" /\ dialogues # <<>>)
          => /\ dialogues' = dialogues
             /\ unitAudio' = unitAudio]_vars

\* C38: a call of the script retry helper makes at most max_retries attempts,
\* returns the agent's output as soon as a run of the agent succeeds (so a
\* failing first run followed by a succeeding one yields the output), and
\* raises only when the agent failed at every one of max_retries attempts
C38_RetryReturnsFirstSuccess ==
    (pc = "returned" /\ result \in {"output", "raise"} /\ impl \in RetryImpls) =>
        /\ Len(resps) <= cfg.max_retries
        /\ result = "output" <=> \E a \in 1..Len(resps) : resps[a][1] = "output"
        /\ result = "output" =>
              \A a \in 1..Len(resps) : (resps[a][1] = "output") <=> (a = Len(resps))
        /\ result = "raise" =>
              /\ Len(resps) = cfg.max_retries
              /\ \A a \in 1..Len(resps) : resps[a][1] # "output"

\* the registry operations that change a task
MutatingOps == {"update", "increment", "cancel", "delete"}

\* C39: a set_status, increment, cancel or delete on one task, made on the held
\* instance or on one just built, leaves the file and the held instance's
\* record of every other task as they were
C39_OtherTasksUntouched ==
    [][ret'.op \in MutatingOps =>
          \A id \in RegistryIds \ {ret'.id} :
              /\ files'[id] = files[id]
              /\ tasks'[id] = tasks[id]]_vars

\* a cancel made on a fresh instance took effect (the held instance has not
\* seen it) while the other task is running with one step counted, in its file
\* and in the held instance
C39_Witness ==
    /\ ret.op = "cancel" /\ ret.id = JobId /\ ret.out = "True"
    /\ ValidTask(files[JobId]) /\ ValidTask(tasks[JobId])
    /\ files[JobId].status = FAILED /\ tasks[JobId].status = RUNNING
    /\ ValidTask(files[OtherId]) /\ tasks[OtherId] = files[OtherId]
    /\ files[OtherId].status = RUNNING /\ files[OtherId].current_step = 1

\* C40: a TaskService just built holds every task whose file is readable, with
\* the values in the file, whatever the state of the other task files
C40_ReadableTasksLoaded ==
    [][ret'.op = "init" =>
          \A id \in RegistryIds : ValidTask(files'[id]) => tasks'[id] = files'[id]]_vars
====
